---- MODULE Spec2Model ----
(***************************************************************************)
(* Kalshi <-> Polymarket arbitrage bot (src/kalshi_poly_arb_live.py):      *)
(* the main loop, the pre-scan risk checks, one scan cycle with its        *)
(* per-candidate gating, the two-leg execution with its emergency paths,   *)
(* and the trade journal.                                                  *)
(*                                                                         *)
(* Money is counted in thousandths of a dollar (a cost of 0.40 is 400),    *)
(* ratios are compared by cross-multiplication, so every comparison the    *)
(* code makes on floats is made here on exact integers.                    *)
(*                                                                         *)
(* Venue A is Kalshi ("ks"), venue B is Polymarket ("pm").                 *)
(***************************************************************************)
EXTENDS Integers, Sequences, FiniteSets, TLC

(***************************************************************************)
(* Program constants                                                       *)
(***************************************************************************)
MIN_PROFIT_PER_MILLE == 5
LOSS_KILL_THRESHOLD_PCT == 40
TEST_ORDER_SIZE == 2
ARB_COOLDOWN_SECONDS == 3600
MAX_POSITIONS_PER_GAME == 3
POLL_INTERVAL == 15
max_execute == 2
RECENT_TRADES == 10
DRY_RUN == FALSE
TEST_TINY_ORDER == TRUE
\* MAX_POSITION = 8.00 dollars
MAX_POSITION == 8000
\* LIQUIDITY_PERCENT = 0.30
LIQUIDITY_PERCENT == 30
\* KALSHI_TAKER_FEE = 0.02
KALSHI_TAKER_FEE_PCT == 2

(***************************************************************************)
(* Bounds of the model                                                     *)
(***************************************************************************)
\* scan cycles started since the first process start
MaxCycles == 2
\* candidates find_arbs returns in one cycle
MaxArbs == 3

(***************************************************************************)
(* Candidates.  A bounded sample of what find_arbs emits: totals carry the *)
(* venue-B token pair and pm_side 0/1, spreads carry the token pair and    *)
(* pm_side "yes"/"no", winners carry ONE venue-B token (pm_id_is_list is   *)
(* FALSE) and pm_side "yes"/"no".  profit = 1 - cost for every candidate.  *)
(***************************************************************************)
Arb(game, market_type, ks_side, pm_side, cost) ==
    [game |-> game, market_type |-> market_type, ks_side |-> ks_side,
     pm_side |-> pm_side, cost |-> cost, profit |-> 1000 - cost,
     pm_id_is_list |-> (market_type # "winner")]

ArbUniverse ==
    { Arb("g1", "total",  "yes", "1",  400),
      Arb("g1", "total",  "yes", "1",  800),
      Arb("g1", "total",  "no",  "0",  400),
      Arb("g1", "spread", "yes", "no", 800),
      Arb("g1", "winner", "yes", "no", 400),
      Arb("g2", "total",  "yes", "1",  800) }

Games == { a.game : a \in ArbUniverse }

\* get_arb_key: f"{game}:{market_type}:{ks_side}:{pm_side}".  The last three
\* fields never contain ':', so the string determines the four fields.
get_arb_key(arb) == <<arb.game, arb.market_type, arb.ks_side, arb.pm_side>>

Keys == { get_arb_key(a) : a \in ArbUniverse }

\* roi = profit / cost; a.roi >= b.roi by cross-multiplication (cost > 0)
RoiGeq(a, b) == a.profit * b.cost >= b.profit * a.cost

\* arb['roi'] >= MIN_PROFIT
RoiAtLeastMinProfit(arb) == arb.profit * 1000 >= MIN_PROFIT_PER_MILLE * arb.cost

\* a slip: the list is left in the order find_arbs built it
InsertByRoi_append(s, a) == Append(s, a)

\* arbs.sort(key=roi, reverse=True): a stable sort, highest ROI first
RECURSIVE InsertByRoi(_, _)
InsertByRoi(s, a) ==
    IF s = <<>> THEN <<a>>
    ELSE IF RoiGeq(Head(s), a) THEN <<Head(s)>> \o InsertByRoi(Tail(s), a)
    ELSE <<a>> \o s

RECURSIVE SortByRoi(_)
SortByRoi(s) ==
    IF s = <<>> THEN <<>>
    ELSE InsertByRoi(SortByRoi(SubSeq(s, 1, Len(s) - 1)), s[Len(s)])

\* what find_arbs may return in one cycle, in any order
FoundLists ==
    { s \in UNION { [1..n -> ArbUniverse] : n \in 0..MaxArbs } :
        \A i, j \in DOMAIN s : i # j => s[i] # s[j] }

VARIABLES
    pc,                  \* position of the single thread of the process
    cycle,               \* scan cycles started so far
    journal,             \* the records of the trade log file, oldest first
    journalReadable,     \* FALSE: the file exists but is no valid JSON
    EXECUTED_ARBS,       \* set of arb keys
    GAME_POSITION_COUNT, \* game -> count (absent games read as 0)
    arbs,                \* the sorted candidates of the running cycle, from
                         \* the loop's position on (the visited ones dropped)
    idx,                 \* rank in the sorted list of the candidate at the
                         \* loop's position (1 = highest ROI)
    executed,            \* scan's counter of successful executions
    orders,              \* orders sent to the venues by the running execution
    pmPos,               \* venue-B leg of the running execution
    ksPos,               \* venue-A leg of the running execution
    ks_order_id,         \* "None" or "set"
    logCalls,            \* log_trade calls of the running execution
    outcome,             \* how the last execution ended
    sinceMarked,         \* key -> seconds since it was marked executed
                         \* (-1: not marked; counted up to the cooldown)
    attempts,            \* key -> calls of execute_arb in the running cycle
    live,                \* what the running execution read from the venues
                         \* for its sizing (not read again once leg 1 is sent)
    position_size,       \* the local position_size of the running execution
    detect,              \* find_arbs on one pair of markets: the markets it
                         \* is given and the candidates it appends
    sizing,              \* calculate_position_size: its arguments and the
                         \* balances it reads, and the dict it returns
    keying               \* the game key extraction of the fetchers: a slug or
                         \* an event ticker, and the key it is filed under

vars == <<pc, cycle, journal, journalReadable, EXECUTED_ARBS,
          GAME_POSITION_COUNT, arbs, idx, executed, orders, pmPos, ksPos,
          ks_order_id, logCalls, outcome, sinceMarked, attempts, live, position_size, detect, sizing, keying>>

procVars == <<EXECUTED_ARBS, GAME_POSITION_COUNT, sinceMarked>>
execVars == <<orders, pmPos, ksPos, ks_order_id, logCalls, outcome, live,
              position_size>>
scanVars == <<arbs, idx, executed, attempts>>
funVars == <<detect, sizing, keying>>
fileVars == <<journal, journalReadable>>

(***************************************************************************)
(* Trade journal                                                           *)
(***************************************************************************)
\* the fields of a trade record that the program reads back
TradeRecord(arb, size, success, both_legs_filled) ==
    [trade_cost |-> arb.cost * size,
     locked_profit |-> arb.profit * size,
     success |-> success,
     both_legs_filled |-> both_legs_filled]

\* outcomes of the write at the end of log_trade: the file is rewritten;
\* open() raises and the file is untouched; the file is truncated by open()
\* and the dump raises, leaving no valid JSON
WriteResults == {"ok", "error", "truncated"}

\* log_trade: what the file holds afterwards, and whether it raised
log_trade(j, readable, rec, w) ==
    LET trades == IF readable THEN j ELSE <<>> IN
    IF w = "ok" THEN [journal |-> Append(trades, rec), readable |-> TRUE, raised |-> FALSE]
    ELSE IF w = "error" THEN [journal |-> j, readable |-> readable, raised |-> TRUE]
    ELSE [journal |-> <<>>, readable |-> FALSE, raised |-> TRUE]

RECURSIVE SumCost(_)
SumCost(j) == IF j = <<>> THEN 0 ELSE j[1].trade_cost + SumCost(Tail(j))

\* a slip: failed trades are left out of the P&L
RECURSIVE SumProfit_successes_only(_)
SumProfit_successes_only(j) ==
    IF j = <<>> THEN 0
    ELSE (IF j[1].success THEN j[1].locked_profit ELSE 0)
         + SumProfit_successes_only(Tail(j))

RECURSIVE SumProfit(_)
SumProfit(j) ==
    IF j = <<>> THEN 0
    ELSE (IF j[1].success THEN j[1].locked_profit ELSE 0 - j[1].trade_cost)
         + SumProfit(Tail(j))

\* check_loss_threshold: TRUE = continue, FALSE = stop the bot
check_loss_threshold(j, readable) ==
    IF ~readable THEN TRUE
    ELSE IF j = <<>> THEN TRUE
    ELSE LET total_cost == SumCost(j)
             net_pnl == SumProfit(j)
             loss == IF net_pnl < 0 THEN 0 - net_pnl ELSE 0
         IN  IF total_cost = 0 THEN TRUE
             ELSE ~(loss * 100 >= LOSS_KILL_THRESHOLD_PCT * total_cost)

\* a slip: only the last trade is looked at
recent_trades_last_only(j) ==
    IF j = <<>> THEN j ELSE SubSeq(j, Len(j), Len(j))

\* trades[-10:]
recent_trades(j) ==
    IF Len(j) <= RECENT_TRADES THEN j ELSE SubSeq(j, Len(j) - RECENT_TRADES + 1, Len(j))

\* check_naked_positions: TRUE = continue, FALSE = stop the bot
check_naked_positions(j, readable) ==
    IF ~readable THEN TRUE
    ELSE IF j = <<>> THEN TRUE
    ELSE LET recent == recent_trades(j) IN
         ~(\E i \in DOMAIN recent : ~recent[i].both_legs_filled)

(***************************************************************************)
(* find_arbs on one pair of markets, one of each venue.                    *)
(*                                                                         *)
(* Prices are asks in thousandths of a dollar; the Kalshi asks of the      *)
(* sample are multiples of 5 cents, so that the 2% fee is a whole number   *)
(* of thousandths.  Lines are in tenths of a point (3.5 is 35).            *)
(*                                                                         *)
(* A string (a market title, a Polymarket outcome) is what the program     *)
(* reads of it: the set of the words and phrases it contains, which        *)
(* `term in title` tests, and the numbers written in it from left to       *)
(* right, which the regular expression of extract_line_number searches.    *)
(* Each written number records whether it belongs to a team name ("49ers") *)
(* or is the line the market quotes.                                       *)
(***************************************************************************)
Text(terms, numbers) == [terms |-> terms, numbers |-> numbers]
InName(v) == [value |-> v, in_name |-> TRUE]
Line(v) == [value |-> v, in_name |-> FALSE]

\* `term in text`
contains(text, term) == term \in text.terms

Abs(n) == IF n < 0 THEN 0 - n ELSE n

\* TEAM_SEARCH_MAP.get(abbrev, [abbrev]); the list is [city, nickname, ...]
get_team_search_terms(abbrev) ==
    CASE abbrev = "sea"  -> <<"seattle", "seahawks">>
      [] abbrev = "sfs"  -> <<"san francisco", "49ers", "niners">>
      [] abbrev = "uk"   -> <<"kentucky", "wildcats">>
      [] abbrev = "nova" -> <<"villanova", "wildcats">>
      [] OTHER -> <<abbrev>>

\* some search term of the team occurs in the text
mentions(text, abbrev) ==
    \E i \in DOMAIN get_team_search_terms(abbrev) :
        contains(text, get_team_search_terms(abbrev)[i])

\* extract_market_type: 'spread', 'total', 'winner' or None ("none")
extract_market_type(title) ==
    IF contains(title, "spread") \/ contains(title, "wins by") THEN "spread"
    ELSE IF \/ contains(title, "o/u") \/ contains(title, "over/under")
            \/ (contains(title, "over") /\ contains(title, "under")) THEN "total"
    ELSE IF contains(title, "team total") THEN "total"
    ELSE IF \/ contains(title, "winner")
            \/ (contains(title, " wins") /\ ~contains(title, "by")) THEN "winner"
    ELSE IF /\ contains(title, " vs") /\ ~contains(title, "spread")
            /\ ~contains(title, "o/u") /\ ~contains(title, "total") THEN "winner"
    ELSE "none"

\* extract_line_number: the first number written in the title, None is <<>>
extract_line_number(title) ==
    IF title.numbers = <<>> THEN <<>> ELSE <<title.numbers[1].value>>

\* the tagged key "sport:team1-team2" a market is filed under
GameKey(sport, team1, team2) == [sport |-> sport, teams |-> <<team1, team2>>]

\* extract_spread_info: (team_abbrev, abs(line)) of the first team of the
\* key that the title mentions, None is <<>>
extract_spread_info(title, game_key) ==
    IF title.numbers = <<>> THEN <<>>
    ELSE IF mentions(title, game_key.teams[1])
         THEN <<game_key.teams[1], Abs(title.numbers[1].value)>>
    ELSE IF mentions(title, game_key.teams[2])
         THEN <<game_key.teams[2], Abs(title.numbers[1].value)>>
    ELSE <<>>

KsPrices == {100, 500, 950, 1000}
PmPrices == {0, 298, 485, 486, 900}

SeaSfs == GameKey("nfl", "sea", "sfs")
NovaUk == GameKey("cbb", "nova", "uk")

\* market titles of the sample (lower case, as the fetchers store them)
KsTitles ==
    [spread_sea      |-> Text({"seattle", " wins", "wins by", "by", "over", "point"}, <<Line(35)>>),
     spread_sf       |-> Text({"san francisco", " wins", "wins by", "by", "over", "point"}, <<Line(35)>>),
     spread_49ers    |-> Text({"49ers", " wins", "wins by", "by", "over", "point"}, <<InName(490), Line(35)>>),
     spread_no_team  |-> Text({" wins", "wins by", "by", "over", "point"}, <<Line(35)>>),
     total_cities    |-> Text({"seattle", "san francisco", "over/under", "over", "under", "point"}, <<Line(455)>>),
     total_nicknames |-> Text({"seahawks", "49ers", "over/under", "over", "under", "point"}, <<InName(490), Line(455)>>),
     winner_nova     |-> Text({"villanova", "winner"}, <<>>),
     winner_both     |-> Text({"kentucky", "villanova", "winner"}, <<>>),
     winner_no_team  |-> Text({"winner"}, <<>>)]

PmTitles ==
    [spread_sea      |-> Text({"spread", "seahawks"}, <<Line(-35)>>),
     spread_49ers    |-> Text({"spread", "49ers"}, <<InName(490), Line(-65)>>),
     total_cities    |-> Text({"seattle", "san francisco", " vs", "o/u"}, <<Line(455)>>),
     total_cities_2  |-> Text({"seattle", "san francisco", " vs", "o/u"}, <<Line(475)>>),
     total_nicknames |-> Text({"seahawks", "49ers", " vs", "o/u"}, <<InName(490), Line(475)>>),
     winner          |-> Text({"kentucky", "villanova", " vs"}, <<>>)]

\* the 'outcomes' array of a Polymarket market
PmOutcomes ==
    [yes_no   |-> <<Text({"yes"}, <<>>), Text({"no"}, <<>>)>>,
     sea_sfs  |-> <<Text({"seahawks"}, <<>>), Text({"49ers"}, <<InName(490)>>)>>,
     uk_nova  |-> <<Text({"kentucky"}, <<>>), Text({"villanova"}, <<>>)>>,
     nova_uk  |-> <<Text({"villanova"}, <<>>), Text({"kentucky"}, <<>>)>>,
     wildcats |-> <<Text({"kentucky", "wildcats"}, <<>>),
                    Text({"villanova", "wildcats"}, <<>>)>>]

\* a Kalshi market as get_kalshi_games stores it: no_ask = 100 - yes_ask
KsMarket(game_key, title, yes) ==
    [game_key |-> game_key, title |-> title, yes |-> yes, no |-> 1000 - yes]

\* a Polymarket market as get_polymarket_games stores it
PmMarket(game_key, title, outcomes, yes, no) ==
    [game_key |-> game_key, title |-> title, outcomes |-> outcomes,
     yes |-> yes, no |-> no]

KsListings ==
    { <<SeaSfs, KsTitles.spread_sea>>, <<SeaSfs, KsTitles.spread_sf>>,
      <<SeaSfs, KsTitles.spread_49ers>>, <<SeaSfs, KsTitles.spread_no_team>>,
      <<SeaSfs, KsTitles.total_cities>>, <<SeaSfs, KsTitles.total_nicknames>>,
      <<NovaUk, KsTitles.winner_nova>>, <<NovaUk, KsTitles.winner_both>>,
      <<NovaUk, KsTitles.winner_no_team>>, <<NovaUk, KsTitles.total_cities>> }

PmListings ==
    { <<SeaSfs, PmTitles.spread_sea, PmOutcomes.sea_sfs>>,
      <<SeaSfs, PmTitles.spread_49ers, PmOutcomes.sea_sfs>>,
      <<SeaSfs, PmTitles.total_cities, PmOutcomes.yes_no>>,
      <<SeaSfs, PmTitles.total_cities_2, PmOutcomes.yes_no>>,
      <<SeaSfs, PmTitles.total_nicknames, PmOutcomes.yes_no>>,
      <<NovaUk, PmTitles.winner, PmOutcomes.uk_nova>>,
      <<NovaUk, PmTitles.winner, PmOutcomes.nova_uk>>,
      <<NovaUk, PmTitles.winner, PmOutcomes.wildcats>>,
      <<NovaUk, PmTitles.winner, PmOutcomes.yes_no>>,
      <<NovaUk, PmTitles.total_cities, PmOutcomes.yes_no>> }

\* the inputs of one pass of the inner loop: a market of each venue
DetectInputs ==
    { [ks |-> KsMarket(k[1], k[2], ky), pm |-> PmMarket(p[1], p[2], p[3], py, pn)] :
        k \in KsListings, ky \in KsPrices,
        p \in PmListings, py \in PmPrices \ {0}, pn \in PmPrices }

\* ks_fee = ks_cost_before_fee * KALSHI_TAKER_FEE
ks_fee(ks_cost_before_fee) == (ks_cost_before_fee * KALSHI_TAKER_FEE_PCT) \div 100

\* cost = ks_cost_before_fee + ks_fee + pm_cost
candidate_cost(ks_cost_before_fee, pm_cost) ==
    ks_cost_before_fee + ks_fee(ks_cost_before_fee) + pm_cost

\* a slip: any positive profit is emitted
emits_any_profit(cost, profit) == profit > 0 /\ cost > 0

\* `if profit >= MIN_PROFIT * cost and cost > 0`
emits(cost, profit) == profit * 1000 >= MIN_PROFIT_PER_MILLE * cost /\ cost > 0

\* the dict appended to arbs (the fields the program reads later); ks_team
\* and pm_team are "" for totals, which carry none
Candidate(in, ks_side, pm_side, ks_ask, pm_cost, ks_team, pm_team) ==
    [game |-> in.ks.game_key, market_type |-> extract_market_type(in.ks.title),
     ks |-> in.ks.title, pm |-> in.pm.title,
     ks_side |-> ks_side, pm_side |-> pm_side,
     ks_team |-> ks_team, pm_team |-> pm_team,
     cost |-> candidate_cost(ks_ask, pm_cost),
     profit |-> 1000 - candidate_cost(ks_ask, pm_cost),
     fee |-> ks_fee(ks_ask), ks_ask |-> ks_ask, pm_best_ask |-> pm_cost,
     pm_id_is_list |-> (extract_market_type(in.ks.title) # "winner")]

\* arbs.append(...) under the emission filter
Emit(c) == IF emits(c.cost, c.profit) THEN <<c>> ELSE <<>>

\* a slip: spreads paired on the line alone
spread_match_line_only(ks_spread, pm_spread) ==
    ks_spread # <<>> /\ pm_spread # <<>> /\ ks_spread[2] = pm_spread[2]

\* both must have valid spread info and match (team, line)
spread_match(ks_spread, pm_spread) ==
    ks_spread # <<>> /\ pm_spread # <<>> /\ ks_spread = pm_spread

\* the pairing filter of the inner loop
lines_match(in) ==
    IF extract_market_type(in.ks.title) = "spread"
    THEN spread_match(extract_spread_info(in.ks.title, in.ks.game_key),
                      extract_spread_info(in.pm.title, in.ks.game_key))
    ELSE extract_line_number(in.ks.title) = extract_line_number(in.pm.title)

\* the other team of the key
opponent_of(game_key, team) ==
    IF game_key.teams[1] = team THEN game_key.teams[2] ELSE game_key.teams[1]

\* spreads: Kalshi YES against the opponent covering on Polymarket, Kalshi
\* NO against the Kalshi team covering
spread_arbs(in) ==
    LET ks_team == extract_spread_info(in.ks.title, in.ks.game_key)[1]
        pm_team == extract_spread_info(in.pm.title, in.ks.game_key)[1]
        opponent == opponent_of(in.ks.game_key, ks_team)
        side1 == IF pm_team = ks_team THEN "no" ELSE "yes"
        side2 == IF pm_team = ks_team THEN "yes" ELSE "no"
    IN  Emit(Candidate(in, "yes", side1, in.ks.yes,
                       IF side1 = "no" THEN in.pm.no ELSE in.pm.yes,
                       ks_team, opponent))
        \o Emit(Candidate(in, "no", side2, in.ks.no,
                          IF side2 = "yes" THEN in.pm.yes ELSE in.pm.no,
                          ks_team, ks_team))

\* the team of the key the Kalshi title is for: the first one it mentions
winner_ks_team(in) ==
    IF mentions(in.ks.title, in.ks.game_key.teams[1]) THEN <<in.ks.game_key.teams[1]>>
    ELSE IF mentions(in.ks.title, in.ks.game_key.teams[2]) THEN <<in.ks.game_key.teams[2]>>
    ELSE <<>>

\* the index the loop over enumerate(pm_outcomes) leaves for a team: the
\* last outcome that mentions it
outcome_idx(outcomes, team) ==
    IF mentions(outcomes[2], team) THEN <<1>>
    ELSE IF mentions(outcomes[1], team) THEN <<0>>
    ELSE <<>>

\* winners: Kalshi YES against the opponent's Polymarket token, Kalshi NO
\* against the Kalshi team's token
winner_arbs(in) ==
    IF winner_ks_team(in) = <<>> THEN <<>>
    ELSE
    LET ks_team == winner_ks_team(in)[1]
        opponent == opponent_of(in.ks.game_key, ks_team)
        ks_team_outcome_idx == outcome_idx(in.pm.outcomes, ks_team)
        opponent_outcome_idx == outcome_idx(in.pm.outcomes, opponent)
    IN  IF ks_team_outcome_idx = <<>> \/ opponent_outcome_idx = <<>> THEN <<>>
        ELSE Emit(Candidate(in, "yes",
                            IF opponent_outcome_idx[1] = 0 THEN "yes" ELSE "no",
                            in.ks.yes,
                            IF opponent_outcome_idx[1] = 0 THEN in.pm.yes ELSE in.pm.no,
                            ks_team, opponent))
             \o Emit(Candidate(in, "no",
                               IF ks_team_outcome_idx[1] = 0 THEN "yes" ELSE "no",
                               in.ks.no,
                               IF ks_team_outcome_idx[1] = 0 THEN in.pm.yes ELSE in.pm.no,
                               ks_team, ks_team))

\* totals: Kalshi YES against Polymarket NO (token 1), Kalshi NO against
\* Polymarket YES (token 0)
total_arbs(in) ==
    Emit(Candidate(in, "yes", "1", in.ks.yes, in.pm.no, "", ""))
    \o Emit(Candidate(in, "no", "0", in.ks.no, in.pm.yes, "", ""))

\* the candidates one pair of markets adds to arbs, arb 1 before arb 2
pair_arbs(in) ==
    IF in.ks.game_key # in.pm.game_key THEN <<>>
    ELSE IF extract_market_type(in.ks.title) = "none" THEN <<>>
    ELSE IF extract_market_type(in.ks.title) # extract_market_type(in.pm.title) THEN <<>>
    ELSE IF ~lines_match(in) THEN <<>>
    ELSE IF extract_market_type(in.ks.title) = "spread" THEN spread_arbs(in)
    ELSE IF extract_market_type(in.ks.title) = "winner" THEN winner_arbs(in)
    ELSE total_arbs(in)

(***************************************************************************)
(* calculate_position_size.  Share counts are exact fractions              *)
(* <<numerator, denominator>> with a positive denominator, compared by     *)
(* cross-multiplication.                                                   *)
(***************************************************************************)
Frac(n, d) == <<n, d>>
FracLess(a, b) == a[1] * b[2] < b[1] * a[2]
\* min(a, b) and max(a, b) of Python: the first argument on a tie
FracMin(a, b) == IF FracLess(b, a) THEN b ELSE a
FracMax(a, b) == IF FracLess(a, b) THEN b ELSE a

\* the Kalshi liquidity ceiling from |yes - no| of the first market
\* (default spread 0.01 when there is no market)
ks_max_liq(ks_markets) ==
    LET ks_spread == IF ks_markets = <<>> THEN 10
                     ELSE Abs(ks_markets[1].yes - ks_markets[1].no)
    IN  IF ks_spread < 10 THEN Frac(20, 1)
        ELSE IF ks_spread < 30 THEN Frac(10, 1)
        ELSE IF ks_spread < 50 THEN Frac(5, 1)
        ELSE Frac(2, 1)

\* 'ask' of a stored Polymarket market: 'yes' and 'ask' are both the ask
pm_ask(m) == m.yes

\* the Polymarket liquidity ceiling from |ask - yes| of the first market
\* (default spread 0.05 when there is no market)
pm_max_liq(pm_markets) ==
    LET pm_spread == IF pm_markets = <<>> THEN 50
                     ELSE Abs(pm_ask(pm_markets[1]) - pm_markets[1].yes)
    IN  IF pm_spread < 20 THEN Frac(50, 1)
        ELSE IF pm_spread < 50 THEN Frac(25, 1)
        ELSE IF pm_spread < 100 THEN Frac(10, 1)
        ELSE Frac(5, 1)

\* (balance * 0.5) / arb_cost if arb_cost > 0 else 0
capital_max(balance, arb_cost) ==
    IF arb_cost > 0 THEN Frac(balance, 2 * arb_cost) ELSE Frac(0, 1)

\* max(0.01, 0.01 / (arb_profit * 0.95 + 0.001)) for a positive profit
min_position(arb_profit) ==
    IF arb_profit > 0
    THEN FracMax(Frac(1, 100), Frac(1000, 95 * arb_profit + 100))
    ELSE Frac(1, 100)

\* min(ks_max_liq, pm_max_liq, ks_capital_max, pm_capital_max, MAX_POSITION)
max_position(in) ==
    FracMin(FracMin(FracMin(FracMin(ks_max_liq(in.ks_markets), pm_max_liq(in.pm_markets)),
                            capital_max(in.ks_balance, in.arb.cost)),
                    capital_max(in.pm_balance, in.arb.cost)),
            Frac(MAX_POSITION, 1000))

\* the dict calculate_position_size returns (size, min and max of it)
calculate_position_size(in) ==
    LET lo == min_position(in.arb.profit)
        hi == max_position(in)
        chosen == IF ~FracLess(hi, lo) THEN Frac(7 * hi[1], 10 * hi[2]) ELSE lo
    IN  [size |-> FracMax(Frac(1, 100), FracMin(chosen, Frac(1, 1))),
         min |-> lo, max |-> hi]

\* the arguments and balances of the sample
SizerInputs ==
    [arb : { [cost |-> c, profit |-> 1000 - c] : c \in {500, 990, 995} },
     ks_balance : {0, 25, 1000, 1980}, pm_balance : {0, 25, 1000, 1980},
     ks_markets : {<<>>} \cup { <<KsMarket(SeaSfs, KsTitles.total_cities, y)>> : y \in KsPrices },
     pm_markets : {<<>>, <<PmMarket(SeaSfs, PmTitles.total_cities, PmOutcomes.yes_no, 485, 485)>>}]

\* the sizer is not called
NoSizing == [input |-> "none", result |-> "none", done |-> TRUE]

(***************************************************************************)
(* Game keys.  A team abbreviation is the sequence of its letters (case is *)
(* folded by the code with lower() and upper()); a slug is the list of its *)
(* parts between hyphens; of an event ticker the model keeps whether it    *)
(* has a hyphen, whether its last part starts with a date (DDMMMYY) and    *)
(* the letters that follow.                                                *)
(***************************************************************************)
Alphabet == <<"a", "b", "c", "d", "e", "f", "g", "h", "i", "j", "k", "l", "m",
              "n", "o", "p", "q", "r", "s", "t", "u", "v", "w", "x", "y", "z">>

LetterRank(c) == CHOOSE i \in DOMAIN Alphabet : Alphabet[i] = c

\* a < b for strings of letters
RECURSIVE StrLess(_, _)
StrLess(a, b) ==
    IF b = <<>> THEN FALSE
    ELSE IF a = <<>> THEN TRUE
    ELSE IF Head(a) # Head(b) THEN LetterRank(Head(a)) < LetterRank(Head(b))
    ELSE StrLess(Tail(a), Tail(b))

\* ABBREV_MAP.get(abbrev_lower, abbrev_lower)
normalize_team_abbrev(abbrev) ==
    CASE abbrev = <<"g", "c", "a", "n">> -> <<"g", "c", "u">>
      [] abbrev = <<"n", "m", "x">> -> <<"n", "m">>
      [] OTHER -> abbrev

\* '-'.join(sorted([team1, team2])): the two codes in order
sorted_key(team1, team2) ==
    IF StrLess(team2, team1) THEN <<team2, team1>> ELSE <<team1, team2>>

\* extract_polymarket_game_key; None is <<>>
extract_polymarket_game_key(parts) ==
    IF Len(parts) < 4 THEN <<>>
    ELSE LET team_parts == SubSeq(parts, 2, Len(parts) - 3)
         IN  IF Len(team_parts) < 2 THEN <<>>
             ELSE sorted_key(normalize_team_abbrev(team_parts[1]),
                             normalize_team_abbrev(team_parts[2]))

\* the split of teams_only by its length
split_teams(teams_only) ==
    LET n == Len(teams_only)
        cut == IF n \in {5, 6} THEN 3 ELSE IF n \in {7, 8} THEN 4 ELSE n \div 2
    IN  <<SubSeq(teams_only, 1, cut), SubSeq(teams_only, cut + 1, n)>>

\* extract_kalshi_game_key; None is <<>>
extract_kalshi_game_key(ticker) ==
    IF ~ticker.hyphen THEN <<>>
    ELSE IF Len(ticker.letters) < 4 THEN <<>>
    ELSE sorted_key(normalize_team_abbrev(split_teams(ticker.letters)[1]),
                    normalize_team_abbrev(split_teams(ticker.letters)[2]))

Abbrevs ==
    { <<"k", "c">>, <<"n", "e">>, <<"b", "u", "f">>, <<"d", "e", "n">>,
      <<"g", "c", "u">>, <<"n", "m">>, <<"m", "a", "r", "q">>, <<"g", "c", "a", "n">> }

\* slugs "sport-team...-yyyy-mm-dd" with zero to three team parts
Slugs ==
    { <<sport>> \o teams \o <<"2026", "01", "17">> :
        sport \in {"nfl", "cbb"},
        teams \in UNION { [1..n -> {<<"b", "u", "f">>, <<"d", "e", "n">>,
                                     <<"g", "c", "u">>, <<"g", "c", "a", "n">>}] : n \in 0..3 } }

\* event tickers "SERIES-26JAN17<letters>", and tickers without a hyphen
Tickers ==
    { [hyphen |-> h, letters |-> l] :
        h \in BOOLEAN, l \in Abbrevs \cup { a \o b : a \in Abbrevs, b \in Abbrevs } }

KeyInputs ==
    { [venue |-> "pm", raw |-> x] : x \in Slugs }
    \cup { [venue |-> "ks", raw |-> x] : x \in Tickers }

\* no key extraction modelled
NoKeying == [input |-> "none", key |-> <<>>, filed |-> FALSE, done |-> TRUE]

\* no detection modelled: the main loop takes its candidates from FoundLists
NoDetection == [input |-> "none", arbs |-> <<>>, done |-> TRUE]

\* nothing read from the venues
NoSnapshot ==
    [ks_balance |-> 0, pm_balance |-> 0,
     ks_liquidity_metric |-> 0, pm_liquidity_metric |-> 0]

(***************************************************************************)
(* Initial state: a fresh process, no journal file                         *)
(***************************************************************************)
InitProcess ==
    /\ pc = "check"
    /\ cycle = 0
    /\ journal = <<>>
    /\ journalReadable = TRUE
    /\ EXECUTED_ARBS = {}
    /\ GAME_POSITION_COUNT = [g \in Games |-> 0]
    /\ arbs = <<>>
    /\ idx = 1
    /\ executed = 0
    /\ orders = <<>>
    /\ pmPos = "none"
    /\ ksPos = "none"
    /\ ks_order_id = "None"
    /\ logCalls = <<>>
    /\ outcome = "none"
    /\ sinceMarked = [k \in Keys |-> -1]
    /\ attempts = [k \in Keys |-> 0]
    /\ live = NoSnapshot
    /\ position_size = 0

Init == InitProcess /\ detect = NoDetection /\ sizing = NoSizing /\ keying = NoKeying

(***************************************************************************)
(* Main loop                                                               *)
(***************************************************************************)
\* a slip: the naked-position check is left out
PreScanChecksPass_loss_only(j, readable) == check_loss_threshold(j, readable)

\* the two checks at the top of `while True`
PreScanChecksPass(j, readable) ==
    check_loss_threshold(j, readable) /\ check_naked_positions(j, readable)

MainCheck ==
    /\ UNCHANGED funVars
    /\ pc = "check"
    /\ IF PreScanChecksPass(journal, journalReadable)
       THEN /\ cycle < MaxCycles
            /\ pc' = "scan"
            /\ cycle' = cycle + 1
       ELSE /\ pc' = "stopped"
            /\ cycle' = cycle
    /\ UNCHANGED <<fileVars, procVars, scanVars, execVars>>

\* scan() up to the start of the execution loop
ScanFind ==
    /\ UNCHANGED funVars
    /\ pc = "scan"
    /\ \E found \in FoundLists :
         /\ arbs' = SortByRoi(found)
         /\ pc' = IF found = <<>> THEN "sleep" ELSE "gate"
    /\ idx' = 1
    /\ executed' = 0
    /\ attempts' = [k \in Keys |-> 0]
    /\ UNCHANGED <<cycle, fileVars, procVars, execVars>>

\* d seconds pass
Elapse(since, d) ==
    [k \in Keys |-> IF since[k] = -1 THEN -1
                    ELSE IF since[k] + d >= ARB_COOLDOWN_SECONDS THEN ARB_COOLDOWN_SECONDS
                    ELSE since[k] + d]

\* time.sleep(POLL_INTERVAL)
Sleep ==
    /\ UNCHANGED funVars
    /\ pc = "sleep"
    /\ sinceMarked' = Elapse(sinceMarked, POLL_INTERVAL)
    /\ pc' = "check"
    /\ UNCHANGED <<cycle, fileVars, EXECUTED_ARBS, GAME_POSITION_COUNT, scanVars, execVars>>

\* the same sleep when the process (or the machine) is suspended meanwhile:
\* a whole cooldown passes before the loop goes on
LongSleep ==
    /\ UNCHANGED funVars
    /\ pc = "sleep"
    /\ sinceMarked' = Elapse(sinceMarked, ARB_COOLDOWN_SECONDS)
    /\ pc' = "check"
    /\ UNCHANGED <<cycle, fileVars, EXECUTED_ARBS, GAME_POSITION_COUNT, scanVars, execVars>>

\* a new process after sys.exit(1) or an uncaught exception: the module-level
\* state is rebuilt empty, the journal file stays
Restart ==
    /\ UNCHANGED funVars
    /\ pc \in {"stopped", "crashed"}
    /\ pc' = "check"
    /\ EXECUTED_ARBS' = {}
    /\ GAME_POSITION_COUNT' = [g \in Games |-> 0]
    /\ sinceMarked' = [k \in Keys |-> -1]
    /\ arbs' = <<>>
    /\ idx' = 1
    /\ executed' = 0
    /\ attempts' = [k \in Keys |-> 0]
    /\ orders' = <<>>
    /\ pmPos' = "none"
    /\ ksPos' = "none"
    /\ ks_order_id' = "None"
    /\ logCalls' = <<>>
    /\ outcome' = "none"
    /\ live' = NoSnapshot
    /\ position_size' = 0
    /\ UNCHANGED <<cycle, fileVars>>

(***************************************************************************)
(* scan(): the loop `for arb in arbs[:max_execute]`                        *)
(***************************************************************************)
\* a slip: the loop runs over the whole list
InLoop_whole_list == arbs # <<>>

\* a slip: the loop goes on until two executions have succeeded
InLoop_until_two_successes == executed < max_execute /\ arbs # <<>>

\* the loop `for arb in arbs[:max_execute]` still has an element to visit
InLoop == idx <= max_execute /\ arbs # <<>>

cur == Head(arbs)

is_duplicate_arb(arb, executedArbs) == get_arb_key(arb) \in executedArbs

\* a slip: the key is computed but never added
mark_arb_executed_noop(arb, executedArbs) == executedArbs

mark_arb_executed(arb, executedArbs) == executedArbs \cup {get_arb_key(arb)}

\* a slip: the position limit per game is not looked at
GateDecision_no_cap(arb, executedArbs, counts) ==
    IF ~RoiAtLeastMinProfit(arb) THEN "low_roi"
    ELSE IF is_duplicate_arb(arb, executedArbs) THEN "duplicate"
    ELSE "execute"

\* the checks of one loop iteration, in the order the code makes them
GateDecision(arb, executedArbs, counts) ==
    IF ~RoiAtLeastMinProfit(arb) THEN "low_roi"
    ELSE IF is_duplicate_arb(arb, executedArbs) THEN "duplicate"
    ELSE IF counts[arb.game] >= MAX_POSITIONS_PER_GAME THEN "exposure"
    ELSE "execute"

ResetExecution ==
    /\ live' = NoSnapshot
    /\ position_size' = 0
    /\ orders' = <<>>
    /\ pmPos' = "none"
    /\ ksPos' = "none"
    /\ ks_order_id' = "None"
    /\ logCalls' = <<>>
    /\ outcome' = "none"

\* `continue`, or an ROI below MIN_PROFIT: on to the next candidate
GateSkip ==
    /\ UNCHANGED funVars
    /\ pc = "gate"
    /\ InLoop
    /\ GateDecision(cur, EXECUTED_ARBS, GAME_POSITION_COUNT) # "execute"
    /\ idx' = idx + 1
    /\ arbs' = Tail(arbs)
    /\ ResetExecution
    /\ UNCHANGED <<pc, cycle, fileVars, procVars, executed, attempts>>

\* the call execute_arb(arb, ks_games, pm_games)
GateExecute ==
    /\ UNCHANGED funVars
    /\ pc = "gate"
    /\ InLoop
    /\ GateDecision(cur, EXECUTED_ARBS, GAME_POSITION_COUNT) = "execute"
    /\ pc' = "exec"
    /\ attempts' = [attempts EXCEPT ![get_arb_key(cur)] = @ + 1]
    /\ ResetExecution
    /\ UNCHANGED <<cycle, fileVars, procVars, arbs, idx, executed>>

\* the loop is over: scan() returns
ScanDone ==
    /\ UNCHANGED funVars
    /\ pc = "gate"
    /\ ~InLoop
    /\ pc' = "sleep"
    /\ arbs' = <<>>
    /\ idx' = 1
    /\ executed' = 0
    /\ attempts' = [k \in Keys |-> 0]
    /\ ResetExecution
    /\ UNCHANGED <<cycle, fileVars, procVars>>

\* a slip: the position is counted on every game
count_position_every_game(counts, game_key) ==
    [g \in DOMAIN counts |-> counts[g] + 1]

\* GAME_POSITION_COUNT[game_key] = current_position_count + 1
count_position(counts, game_key) ==
    [counts EXCEPT ![game_key] = counts[game_key] + 1]

\* scan() after execute_arb returned `success`
ScanAfterExecute(success) ==
    /\ pc' = "gate"
    /\ idx' = idx + 1
    /\ IF success
       THEN /\ executed' = executed + 1
            /\ EXECUTED_ARBS' = mark_arb_executed(cur, EXECUTED_ARBS)
            /\ GAME_POSITION_COUNT' = count_position(GAME_POSITION_COUNT, cur.game)
            /\ sinceMarked' = [sinceMarked EXCEPT ![get_arb_key(cur)] = 0]
       ELSE UNCHANGED <<executed, procVars>>
    /\ arbs' = Tail(arbs)
    /\ live' = NoSnapshot
    /\ position_size' = 0
    /\ UNCHANGED attempts

(***************************************************************************)
(* execute_arb()                                                           *)
(***************************************************************************)
\* what execute_arb reads from the venues before it sizes the trade: the
\* two balances (thousandths of a dollar), max(open_interest, volume_24h)
\* of the Kalshi market (contracts; 0: no market or no signal) and the
\* volume signal of the Polymarket market (thousandths of a dollar; 0: none)
Snapshot(ks_balance, pm_balance, ks_liquidity_metric, pm_liquidity_metric) ==
    [ks_balance |-> ks_balance, pm_balance |-> pm_balance,
     ks_liquidity_metric |-> ks_liquidity_metric,
     pm_liquidity_metric |-> pm_liquidity_metric]

\* a bounded sample: either venue out of money, both with 1 dollar, both
\* with 5 dollars; no liquidity signal, a thin Kalshi market, a thin
\* Polymarket market
Snapshots ==
    { Snapshot(b[1], b[2], l[1], l[2]) :
        b \in {<<0, 5000>>, <<5000, 0>>, <<1000, 1000>>, <<5000, 5000>>},
        l \in {<<0, 0>>, <<10, 0>>, <<0, 100000>>} }

SetMin(S) == CHOOSE x \in S : \A y \in S : x <= y

\* lines 1545-1607: position_size = int(min(...)), in whole shares; an
\* absent liquidity signal is float('inf') and drops out of the minimum
computed_position_size(arb, snap) ==
    LET max_liq_ks == IF snap.ks_balance > 0 THEN snap.ks_balance * LIQUIDITY_PERCENT ELSE 0
        max_liq_pm == IF snap.pm_balance > 0 THEN snap.pm_balance * LIQUIDITY_PERCENT ELSE 0
    IN  SetMin({ max_liq_ks \div (100 * arb.cost),
                 max_liq_pm \div (100 * arb.cost),
                 MAX_POSITION \div arb.cost }
               \cup (IF snap.ks_liquidity_metric > 0
                     THEN {(snap.ks_liquidity_metric * 10) \div 100} ELSE {})
               \cup (IF snap.pm_liquidity_metric > 0
                     THEN {snap.pm_liquidity_metric \div (100 * arb.cost)} ELSE {}))

\* lines 1598-1599 and 1631-1632: with TEST_TINY_ORDER the computed size is
\* overridden with TEST_ORDER_SIZE
sized_position(arb, snap) ==
    IF TEST_TINY_ORDER THEN TEST_ORDER_SIZE ELSE computed_position_size(arb, snap)

\* everything execute_arb checks before it sends the first order
PreTradeChecks(arb, snap) ==
    LET size == sized_position(arb, snap)
        trade_cost == arb.cost * size
    IN  IF arb.cost <= 0 THEN "reject"
        ELSE IF arb.profit <= 0 THEN "reject"
        ELSE IF arb.cost > 1000 THEN "reject"
        ELSE IF size < 1 THEN "reject"
        ELSE IF snap.ks_balance < trade_cost THEN "reject"
        ELSE IF snap.pm_balance < trade_cost THEN "reject"
        ELSE IF DRY_RUN THEN "dry_run"
        ELSE IF ~arb.pm_id_is_list THEN "reject"
        ELSE "proceed"

ExecPrecheck ==
    /\ UNCHANGED funVars
    /\ pc = "exec"
    /\ \E snap \in Snapshots :
         LET r == PreTradeChecks(cur, snap) IN
         IF r = "proceed"
         THEN /\ pc' = "leg1"
              /\ live' = snap
              /\ position_size' = sized_position(cur, snap)
              /\ UNCHANGED <<outcome, idx, executed, procVars, arbs, attempts>>
         ELSE /\ outcome' = "rejected"
              /\ ScanAfterExecute(r = "dry_run")
    /\ UNCHANGED <<cycle, fileVars, orders, pmPos, ksPos, ks_order_id, logCalls>>

Order(venue, action, qty, result) ==
    [venue |-> venue, action |-> action, qty |-> qty, result |-> result]

\* a slip: the emergency sell is sent for one share
place_polymarket_order_sells_one(quantity, is_sell, filled) ==
    [success |-> filled,
     order |-> Order("pm", IF is_sell THEN "sell" ELSE "buy",
                     IF is_sell THEN 1 ELSE quantity,
                     IF filled THEN "filled" ELSE "failed")]

\* place_polymarket_order: every rejection, pre-check failure and exception
\* comes back as success = False
place_polymarket_order(quantity, is_sell, filled) ==
    [success |-> filled,
     order |-> Order("pm", IF is_sell THEN "sell" ELSE "buy", quantity,
                     IF filled THEN "filled" ELSE "failed")]

\* a slip: the result of the Polymarket order is not looked at
Step1Continues_always(pm_success) == TRUE

\* line 1696: `if not pm_result['success']: ... return False`
Step1Continues(pm_success) == pm_success

\* STEP 1: the Polymarket order
PlacePolymarketBuy ==
    /\ UNCHANGED funVars
    /\ pc = "leg1"
    /\ \E filled \in BOOLEAN :
         LET pm_result == place_polymarket_order(position_size, FALSE, filled) IN
         /\ orders' = Append(orders, pm_result.order)
         /\ pmPos' = IF filled THEN "open" ELSE "none"
         /\ IF Step1Continues(pm_result.success)
            THEN /\ pc' = "leg2"
                 /\ UNCHANGED <<outcome, idx, executed, procVars, arbs, attempts, live, position_size>>
            ELSE /\ outcome' = "safe_exit"
                 /\ ScanAfterExecute(FALSE)
    /\ UNCHANGED <<cycle, fileVars, ksPos, ks_order_id, logCalls>>

\* place_kalshi_order: the buy and, when the order comes back resting, the
\* emergency sell, whose failure is only printed
KalshiOutcomes == {"filled", "rejected", "resting_sold", "resting_stuck"}

\* a slip: the status of the created order is not looked at
place_kalshi_order_status_unchecked(quantity, res) ==
    IF res = "rejected"
    THEN [success |-> FALSE, ksPos |-> "none",
          orders |-> <<Order("ks", "buy", quantity, "failed")>>]
    ELSE IF res = "filled"
    THEN [success |-> TRUE, ksPos |-> "filled",
          orders |-> <<Order("ks", "buy", quantity, "filled")>>]
    ELSE [success |-> TRUE, ksPos |-> "resting",
          orders |-> <<Order("ks", "buy", quantity, "resting")>>]

place_kalshi_order(quantity, res) ==
    IF res = "filled"
    THEN [success |-> TRUE, ksPos |-> "filled",
          orders |-> <<Order("ks", "buy", quantity, "filled")>>]
    ELSE IF res = "rejected"
    THEN [success |-> FALSE, ksPos |-> "none",
          orders |-> <<Order("ks", "buy", quantity, "failed")>>]
    ELSE IF res = "resting_sold"
    THEN [success |-> FALSE, ksPos |-> "flat",
          orders |-> <<Order("ks", "buy", quantity, "resting"),
                       Order("ks", "sell", quantity, "filled")>>]
    ELSE [success |-> FALSE, ksPos |-> "resting",
          orders |-> <<Order("ks", "buy", quantity, "resting"),
                       Order("ks", "sell", quantity, "failed")>>]

\* STEP 2: the Kalshi order
PlaceKalshiBuy ==
    /\ UNCHANGED funVars
    /\ pc = "leg2"
    /\ \E res \in KalshiOutcomes :
         LET ks_result == place_kalshi_order(position_size, res) IN
         /\ orders' = orders \o ks_result.orders
         /\ ksPos' = ks_result.ksPos
         /\ IF ks_result.success
            THEN /\ pc' = "verify"
                 /\ ks_order_id' = "set"
            ELSE /\ pc' = "close"
                 /\ ks_order_id' = ks_order_id
    /\ live' = NoSnapshot
    /\ UNCHANGED <<cycle, fileVars, procVars, scanVars, pmPos, logCalls, outcome,
                   position_size>>

LogCall(rec, raised) == [rec |-> rec, written |-> ~raised]

\* a slip: the record says "closed" whatever the close returned
EmergencyCloseRecord_always_flat(arb, close_success) ==
    TradeRecord(arb, position_size, FALSE, TRUE)

\* lines 1724-1739: the record logged after the emergency close
EmergencyCloseRecord(arb, close_success) ==
    TradeRecord(arb, position_size, FALSE, close_success)

\* Kalshi failed: sell the Polymarket position, log the trade, return False;
\* an exception of log_trade goes to the except handler
EmergencyClose ==
    /\ UNCHANGED funVars
    /\ pc = "close"
    /\ \E closed \in BOOLEAN, w \in WriteResults :
         LET close_result == place_polymarket_order(position_size, TRUE, closed)
             rec == EmergencyCloseRecord(cur, close_result.success)
             r == log_trade(journal, journalReadable, rec, w)
         IN  /\ orders' = Append(orders, close_result.order)
             /\ pmPos' = IF closed THEN "closed" ELSE "open"
             /\ journal' = r.journal
             /\ journalReadable' = r.readable
             /\ logCalls' = Append(logCalls, LogCall(rec, r.raised))
             /\ outcome' = IF closed THEN "compensated" ELSE "naked"
             /\ IF r.raised
                THEN /\ pc' = "except"
                     /\ UNCHANGED <<idx, executed, procVars, arbs, attempts, live, position_size>>
                ELSE ScanAfterExecute(FALSE)
    /\ UNCHANGED <<cycle, ksPos, ks_order_id>>

\* both legs succeeded: verify_positions_match (prints only), log, return True
VerifyAndLog ==
    /\ UNCHANGED funVars
    /\ pc = "verify"
    /\ \E verification_ok \in BOOLEAN, w \in WriteResults :
         LET rec == TradeRecord(cur, position_size, TRUE, TRUE)
             r == log_trade(journal, journalReadable, rec, w)
         IN  /\ journal' = r.journal
             /\ journalReadable' = r.readable
             /\ logCalls' = Append(logCalls, LogCall(rec, r.raised))
             /\ IF r.raised
                THEN /\ pc' = "except"
                     /\ UNCHANGED <<outcome, idx, executed, procVars, arbs, attempts, live, position_size>>
                ELSE /\ outcome' = "success"
                     /\ ScanAfterExecute(TRUE)
    /\ UNCHANGED <<cycle, orders, pmPos, ksPos, ks_order_id>>

\* `except Exception`: with a Kalshi order id, cancel that order and log the
\* trade as failed; without one, just return False
ExceptHandler ==
    /\ UNCHANGED funVars
    /\ pc = "except"
    /\ IF ks_order_id = "set"
       THEN \E cancelled \in BOOLEAN, w \in WriteResults :
              LET rec == TradeRecord(cur, position_size, FALSE, cancelled)
                  r == log_trade(journal, journalReadable, rec, w)
              IN  /\ orders' = Append(orders, Order("ks", "cancel", position_size,
                                        IF cancelled THEN "filled" ELSE "failed"))
                  /\ ksPos' = IF cancelled THEN "cancelled" ELSE "filled"
                  /\ journal' = r.journal
                  /\ journalReadable' = r.readable
                  /\ logCalls' = Append(logCalls, LogCall(rec, r.raised))
                  /\ outcome' = IF cancelled THEN "rolled_back" ELSE "rollback_failed"
                  /\ IF r.raised
                     THEN /\ pc' = "crashed"
                          /\ UNCHANGED <<idx, executed, procVars, arbs, attempts, live, position_size>>
                     ELSE ScanAfterExecute(FALSE)
       ELSE /\ ScanAfterExecute(FALSE)
            /\ UNCHANGED <<orders, ksPos, fileVars, logCalls, outcome>>
    /\ UNCHANGED <<cycle, pmPos, ks_order_id>>

Next ==
    \/ MainCheck
    \/ ScanFind
    \/ GateSkip
    \/ GateExecute
    \/ ScanDone
    \/ ExecPrecheck
    \/ PlacePolymarketBuy
    \/ PlaceKalshiBuy
    \/ EmergencyClose
    \/ VerifyAndLog
    \/ ExceptHandler
    \/ Sleep
    \/ Restart

Spec == Init /\ [][Next]_vars

\* the same program on a machine that may be suspended during the sleep
NextSuspend == Next \/ LongSleep

SpecSuspend == Init /\ [][NextSuspend]_vars

\* the steps of the running process: everything but the start of a new one
Run ==
    \/ MainCheck
    \/ ScanFind
    \/ GateSkip
    \/ GateExecute
    \/ ScanDone
    \/ ExecPrecheck
    \/ PlacePolymarketBuy
    \/ PlaceKalshiBuy
    \/ EmergencyClose
    \/ VerifyAndLog
    \/ ExceptHandler
    \/ Sleep

\* the single thread of a live process always takes its next step (every
\* venue call returns or times out); one run of the process, from its start
\* to the point where it exits or dies
SpecLive == Init /\ [][Run]_vars /\ WF_vars(Run)

\* find_arbs alone, on every pair of quotes of the sample
InitDetect ==
    /\ InitProcess
    /\ detect \in { [input |-> in, arbs |-> <<>>, done |-> FALSE] : in \in DetectInputs }
    /\ sizing = NoSizing
    /\ keying = NoKeying

FindArbsPair ==
    /\ ~detect.done
    /\ detect' = [detect EXCEPT !.arbs = pair_arbs(detect.input), !.done = TRUE]
    /\ UNCHANGED <<pc, cycle, fileVars, procVars, scanVars, execVars, sizing, keying>>

NextDetect == FindArbsPair

SpecDetect == InitDetect /\ [][NextDetect]_vars

\* calculate_position_size alone, on every input of the sample
InitSizer ==
    /\ InitProcess
    /\ detect = NoDetection
    /\ keying = NoKeying
    /\ sizing \in { [input |-> in, result |-> "none", done |-> FALSE] : in \in SizerInputs }

CalculatePositionSize ==
    /\ ~sizing.done
    /\ sizing' = [sizing EXCEPT !.result = calculate_position_size(sizing.input),
                                !.done = TRUE]
    /\ UNCHANGED <<pc, cycle, fileVars, procVars, scanVars, execVars, detect, keying>>

NextSizer == CalculatePositionSize

SpecSizer == InitSizer /\ [][NextSizer]_vars

\* the key extraction of the fetchers alone, on every input of the sample
InitKeys ==
    /\ InitProcess
    /\ detect = NoDetection
    /\ sizing = NoSizing
    /\ keying \in { [input |-> in, key |-> <<>>, filed |-> FALSE, done |-> FALSE] :
                      in \in KeyInputs }

\* the fetcher resolves the key and, unless it is None, files the market
\* under it (`if not game_key: continue`)
FileUnderKey ==
    /\ ~keying.done
    /\ LET game_key == IF keying.input.venue = "pm"
                       THEN extract_polymarket_game_key(keying.input.raw)
                       ELSE extract_kalshi_game_key(keying.input.raw)
       IN  keying' = [keying EXCEPT !.key = game_key, !.filed = (game_key # <<>>),
                                    !.done = TRUE]
    /\ UNCHANGED <<pc, cycle, fileVars, procVars, scanVars, execVars, detect, sizing>>

NextKeys == FileUnderKey

SpecKeys == InitKeys /\ [][NextKeys]_vars

(***************************************************************************)
(* Properties                                                              *)
(***************************************************************************)
\* the positions of the thread inside execute_arb
ExecPcs == {"exec", "leg1", "leg2", "close", "verify", "except"}

\* execute_arb has just returned (or the process died in it)
ExecutionOver == pc \in {"gate", "crashed"} /\ outcome # "none"

OrdersOn(venue, action) ==
    { i \in DOMAIN orders : orders[i].venue = venue /\ orders[i].action = action }

\* the venue-B buy of the running execution filled
Leg1Filled ==
    \E i \in OrdersOn("pm", "buy") : orders[i].result = "filled"

\* the venue-A buy of the running execution was sent and did not fill
Leg2Failed ==
    \E i \in OrdersOn("ks", "buy") : orders[i].result # "filled"

\* the records the running execution has put into the journal file
WrittenCalls == { i \in DOMAIN logCalls : logCalls[i].written }

\* log_trade raised during the running execution
ExceptionRaised == \E i \in DOMAIN logCalls : ~logCalls[i].written

C3_Claim ==
    (ExecutionOver /\ Leg1Filled /\ ExceptionRaised) =>
        OrdersOn("pm", "sell") # {}

\* C4 (as the specification states it): an execution in which a leg filled
\* ends with exactly one record of it in the journal, and when it leaves a
\* filled leg uncompensated that record has both_legs_filled = false.
C4_Claim ==
    (ExecutionOver /\ Leg1Filled) =>
        /\ Cardinality(WrittenCalls) = 1
        /\ (outcome # "success" /\ (pmPos = "open" \/ ksPos = "filled")) =>
             \A i \in WrittenCalls : logCalls[i].rec.both_legs_filled = FALSE

\* C5 (as the specification states it): when the execution has written a
\* failure record with both_legs_filled = true, nothing it opened is still
\* open: no venue-B position, no venue-A position or resting order.
C5_Claim ==
    \A i \in WrittenCalls :
        (~logCalls[i].rec.success /\ logCalls[i].rec.both_legs_filled) =>
            /\ pmPos \in {"none", "closed"}
            /\ ksPos \in {"none", "flat", "cancelled"}

\* sum of a sequence of integers
RECURSIVE SeqSum(_)
SeqSum(s) == IF s = <<>> THEN 0 ELSE Head(s) + SeqSum(Tail(s))

\* one of the 10 most recent journal entries has both_legs_filled = false
NakedInRecent(j) ==
    \E i \in DOMAIN j : i > Len(j) - 10 /\ ~j[i].both_legs_filled

\* net P&L: locked profit of the successful trades minus the full trade
\* cost of every other trade
NetPnl(j) ==
    SeqSum([i \in DOMAIN j |-> IF j[i].success THEN j[i].locked_profit ELSE 0])
    - SeqSum([i \in DOMAIN j |-> IF j[i].success THEN 0 ELSE j[i].trade_cost])

TotalTradeCost(j) == SeqSum([i \in DOMAIN j |-> j[i].trade_cost])

\* the realized loss is at least 40% of the total trade cost
LossTripped(j) ==
    /\ TotalTradeCost(j) > 0
    /\ NetPnl(j) < 0
    /\ (0 - NetPnl(j)) * 100 >= 40 * TotalTradeCost(j)

\* C6: while one of the 10 most recent entries of the (readable) journal has
\* both_legs_filled = false, the check at the top of the loop stops the
\* loop instead of scanning, and a stopped process can only be restarted,
\* with the journal as it was: so every later start of the loop stops too.
C6_NakedDetectorStops ==
    [][ (journalReadable /\ NakedInRecent(journal)) =>
          /\ pc = "check" => pc' = "stopped"
          /\ pc = "stopped" => (pc' = "check" /\ journal' = journal
                                /\ journalReadable' = journalReadable) ]_vars

\* C6 witness: the loop is stopped by the naked-position detector alone
\* (the loss threshold is not reached)
C6_Witness ==
    /\ pc = "stopped"
    /\ journalReadable
    /\ NakedInRecent(journal)
    /\ ~LossTripped(journal)

\* C7 (amended): the risk-governor checks are evaluated before every scan
\* cycle: no scan cycle starts while the readable journal holds a recent
\* record with both_legs_filled = false or a reached loss threshold.
C7_ChecksBeforeEveryScan ==
    (pc = "scan" /\ journalReadable) =>
        (~NakedInRecent(journal) /\ ~LossTripped(journal))

\* C7 witness: a scan cycle starts over a journal holding a failed trade
\* that both checks have let pass
C7_Witness ==
    /\ pc = "scan"
    /\ journalReadable
    /\ \E i \in DOMAIN journal : ~journal[i].success

\* C7 (as the specification states it): the checks also precede every
\* individual execution, so no execution starts over such a journal.
C7_Claim ==
    (pc = "exec" /\ journalReadable) =>
        (~NakedInRecent(journal) /\ ~LossTripped(journal))

C9_NoAttemptAfterSuccess ==
    pc \in ExecPcs => sinceMarked[get_arb_key(cur)] = -1

\* C9 witness: in the cycle in which a key was executed successfully, a
\* second candidate with that key is at the gate and is skipped as a
\* duplicate
C9_Witness ==
    /\ pc = "gate"
    /\ InLoop
    /\ idx = 2
    /\ sinceMarked[get_arb_key(cur)] = 0
    /\ GateDecision(cur, EXECUTED_ARBS, GAME_POSITION_COUNT) = "duplicate"

\* C9 (as the specification states it): within one cycle (15 seconds, well
\* inside the cooldown window) no key is attempted more than once,
\* whatever the outcome of the first attempt.
C9_Claim ==
    \A k \in Keys : attempts[k] <= 1

\* C10 (as the specification states it): once 3600 seconds have passed
\* since a key was marked executed, a candidate with that key is no longer
\* skipped as a duplicate.
C10_Claim ==
    (pc = "gate" /\ InLoop
     /\ sinceMarked[get_arb_key(cur)] >= ARB_COOLDOWN_SECONDS) =>
        GateDecision(cur, EXECUTED_ARBS, GAME_POSITION_COUNT) # "duplicate"

\* the executions on game g that succeeded in this process (a key succeeds
\* at most once in a process, so they are counted by their keys)
SuccessfulExecutions(g) ==
    Cardinality({ k \in Keys : k[1] = g /\ sinceMarked[k] # -1 })

\* C11 (amended): the per-game counter counts the successful executions
\* (two-leg positions) on the game in this process, and no execution starts
\* for a game on which 3 or more executions have already succeeded.
C11_ExposureCap ==
    /\ \A g \in Games : GAME_POSITION_COUNT[g] = SuccessfulExecutions(g)
    /\ pc \in ExecPcs => SuccessfulExecutions(cur.game) < 3

\* C11 witness: a profitable candidate that is no duplicate is at the gate
\* and is skipped because its game has 3 successful executions
C11_Witness ==
    /\ pc = "gate"
    /\ InLoop
    /\ SuccessfulExecutions(cur.game) = 3
    /\ RoiAtLeastMinProfit(cur)
    /\ GateDecision(cur, EXECUTED_ARBS, GAME_POSITION_COUNT) = "exposure"

\* C11 (as the specification states it): no execution starts for a game on
\* which 3 or more legs have been executed.  Every successful execution
\* filled two legs, so the legs executed on a game are at least twice its
\* successful executions.
C11_Claim ==
    pc \in ExecPcs => 2 * SuccessfulExecutions(cur.game) < 3

\* calls of execute_arb in the running cycle, over a set of keys
RECURSIVE AttemptsOver(_)
AttemptsOver(S) ==
    IF S = {} THEN 0
    ELSE LET k == CHOOSE x \in S : TRUE
         IN  attempts[k] + AttemptsOver(S \ {k})

\* the thread is inside the loop of scan()
InCycle == pc = "gate" \/ pc \in ExecPcs

\* C12: in one scan cycle execute_arb is called at most 2 times, for
\* candidates of the first two ranks; an execution starts with nothing of an
\* earlier execution pending; and whenever the loop is at a candidate, the
\* dedup set holds every key executed successfully so far and the scan's
\* and the games' counters have every success of the cycle, so the gating of
\* the next candidate sees them.
C12_TwoPerCycleSequential ==
    /\ AttemptsOver(Keys) <= 2
    /\ executed <= AttemptsOver(Keys)
    /\ pc \in ExecPcs => idx <= 2
    /\ pc = "exec" =>
         (orders = <<>> /\ logCalls = <<>> /\ outcome = "none"
          /\ pmPos = "none" /\ ksPos = "none" /\ ks_order_id = "None")
    /\ InCycle =>
         /\ EXECUTED_ARBS = { k \in Keys : sinceMarked[k] # -1 }
         /\ executed = Cardinality({ k \in Keys : sinceMarked[k] = 0 })
         /\ \A g \in Games : GAME_POSITION_COUNT[g] >=
              Cardinality({ k \in Keys : k[1] = g /\ sinceMarked[k] = 0 })

\* C12 witness: the second execution of a cycle starts after the first one
\* succeeded and was marked and counted
C12_Witness ==
    /\ pc = "exec"
    /\ idx = 2
    /\ executed = 1
    /\ AttemptsOver(Keys) = 2
    /\ \E k \in EXECUTED_ARBS : sinceMarked[k] = 0

\* both buys of the running execution reported success
BothLegsFilled ==
    /\ Leg1Filled
    /\ \E i \in OrdersOn("ks", "buy") : orders[i].result = "filled"

\* C13 (as the specification states it): when execute_arb returns after
\* both legs reported success, it has ended as a success (one record with
\* success and both_legs_filled true, the execution counted and marked) and
\* has sent no cancel and no sell on either venue.
C13_Claim ==
    (ExecutionOver /\ BothLegsFilled) =>
        /\ outcome = "success"
        /\ pc = "gate" /\ executed >= 1
        /\ \A i \in DOMAIN logCalls :
             logCalls[i].rec.success /\ logCalls[i].rec.both_legs_filled
        /\ OrdersOn("ks", "cancel") = {}
        /\ OrdersOn("ks", "sell") = {}
        /\ OrdersOn("pm", "sell") = {}

\* C14: a venue-A buy reported as resting is treated as a failed leg: the
\* next order is the emergency sell of the same quantity on venue A, no
\* order id is kept, the execution never gets to the success path, and by
\* the time it returns it has sent exactly one close of the filled venue-B
\* leg and logged no success.
C14_RestingOrderUnwind ==
    \A i \in OrdersOn("ks", "buy") :
        orders[i].result = "resting" =>
            /\ i < Len(orders)
            /\ orders[i + 1].venue = "ks"
            /\ orders[i + 1].action = "sell"
            /\ orders[i + 1].qty = orders[i].qty
            /\ ks_order_id = "None"
            /\ pc # "verify"
            /\ outcome # "success"
            /\ ExecutionOver =>
                 /\ Cardinality(OrdersOn("pm", "sell")) = 1
                 /\ \A c \in DOMAIN logCalls : ~logCalls[c].rec.success

\* C14 witness: an execution is over in which the venue-A buy rested, was
\* sold out, and the venue-B leg was closed
C14_Witness ==
    /\ ExecutionOver
    /\ \E i \in OrdersOn("ks", "buy") : orders[i].result = "resting"
    /\ \E i \in OrdersOn("ks", "sell") : orders[i].result = "filled"
    /\ \E i \in OrdersOn("pm", "sell") : orders[i].result = "filled"

\* quantity q is within the hard size bound of candidate arb on snapshot
\* snap: 30% of each balance over the unit cost, the global cap over the
\* unit cost, 10% of the venue-A signal, 1% of the venue-B signal over the
\* unit cost (a signal that is absent bounds nothing)
WithinHardBound(q, arb, snap) ==
    /\ q * arb.cost * 100 <= 30 * snap.ks_balance
    /\ q * arb.cost * 100 <= 30 * snap.pm_balance
    /\ q * arb.cost <= 8000
    /\ snap.ks_liquidity_metric > 0 => q * 10 <= snap.ks_liquidity_metric
    /\ snap.pm_liquidity_metric > 0 => q * arb.cost * 100 <= snap.pm_liquidity_metric

\* C15 (as the specification states it): the quantity of the order sent
\* for leg 1 is within the hard size bound derived from what the execution
\* has just read from the venues.
C15_Claim ==
    pc = "leg2" =>
        \A i \in DOMAIN orders : WithinHardBound(orders[i].qty, cur, live)

\* C16 (as the specification states it): an execution that got past its
\* pre-trade checks has a size of at least 1 unit within its hard size
\* bound, and a required capital (unit cost times the size it trades) within
\* the balance of either venue; a rejected execution has sent no order and
\* made no journal append.
C16_Claim ==
    /\ pc \in {"leg1", "leg2"} =>
         /\ WithinHardBound(1, cur, live)
         /\ position_size >= 1
         /\ cur.cost * position_size <= live.ks_balance
         /\ cur.cost * position_size <= live.pm_balance
    /\ outcome = "rejected" => (orders = <<>> /\ logCalls = <<>>)

\* C17 (as the specification states it): after a journal write has failed
\* in an execution, no cancel has been sent to venue A, the process has not
\* died, and an execution whose two legs filled still ends as a success.
C17_Claim ==
    ExceptionRaised =>
        /\ OrdersOn("ks", "cancel") = {}
        /\ pc # "crashed"
        /\ (ExecutionOver /\ BothLegsFilled) => outcome = "success"

\* C18 (as the specification states it): every step that changes the
\* journal file leaves it readable, with all earlier records unchanged and
\* in order, and exactly one record added at the end.
C18_Claim ==
    [][ <<journal, journalReadable>>' # <<journal, journalReadable>> =>
          /\ journalReadable'
          /\ Len(journal') = Len(journal) + 1
          /\ SubSeq(journal', 1, Len(journal)) = journal ]_vars

\* the size and capital preconditions of execute_arb hold for candidate arb
\* on snapshot snap
SizeAndCapitalOk(arb, snap) ==
    /\ sized_position(arb, snap) >= 1
    /\ arb.cost * sized_position(arb, snap) <= snap.ks_balance
    /\ arb.cost * sized_position(arb, snap) <= snap.pm_balance

\* C19 (as the specification states it): whatever the market type of the
\* candidate execute_arb is called for, on every snapshot that satisfies
\* the size and capital preconditions the execution finds both markets and
\* goes on to the submission of leg 1.
C19_Claim ==
    pc = "exec" =>
        \A snap \in Snapshots :
            SizeAndCapitalOk(cur, snap) => PreTradeChecks(cur, snap) = "proceed"
\* the arithmetic find_arbs promises for one emitted candidate
CandidateArithmetic(c) ==
    /\ c.fee * 100 = KALSHI_TAKER_FEE_PCT * c.ks_ask
    /\ c.cost = c.ks_ask + c.fee + c.pm_best_ask
    /\ c.profit = 1000 - c.cost
    /\ c.cost + c.profit = 1000
    /\ c.profit > 0
    /\ c.profit * 1000 >= MIN_PROFIT_PER_MILLE * c.cost
    /\ 0 < c.cost /\ c.cost <= 1000

\* C20: every candidate find_arbs emits has cost = Kalshi ask + 2% of the
\* Kalshi ask + Polymarket ask, profit = 1 - cost, profit > 0,
\* profit >= MIN_PROFIT * cost and 0 < cost <= 1.
C20_CandidateArithmetic ==
    \A i \in DOMAIN detect.arbs : CandidateArithmetic(detect.arbs[i])

\* a pair of markets that yields two candidates, one of them exactly at the
\* MIN_PROFIT boundary (cost 0.995, profit 0.005)
C20_Witness ==
    /\ detect.done
    /\ Len(detect.arbs) = 2
    /\ \E i \in DOMAIN detect.arbs :
          detect.arbs[i].cost = 995 /\ detect.arbs[i].fee = 10

\* the line a title quotes, apart from numbers that belong to a team name
QuotedLines(title) ==
    { title.numbers[i].value : i \in { j \in DOMAIN title.numbers : ~title.numbers[j].in_name } }

\* the two markets quote the same line (for spreads up to the sign)
SameQuotedLine(ks_title, pm_title, market_type) ==
    IF market_type = "spread"
    THEN { Abs(n) : n \in QuotedLines(ks_title) } = { Abs(n) : n \in QuotedLines(pm_title) }
    ELSE QuotedLines(ks_title) = QuotedLines(pm_title)

\* C21: every emitted candidate references two markets of the same sport,
\* the same team pair and the same market type, and a spread or total
\* candidate references two markets that quote the same line.
C21_Claim ==
    \A i \in DOMAIN detect.arbs :
        /\ detect.input.ks.game_key = detect.input.pm.game_key
        /\ extract_market_type(detect.input.ks.title) = extract_market_type(detect.input.pm.title)
        /\ detect.arbs[i].market_type \in {"spread", "total"}
              => SameQuotedLine(detect.arbs[i].ks, detect.arbs[i].pm, detect.arbs[i].market_type)

\* the pair under detection is a pair of spread markets of one game
SpreadPair ==
    /\ detect.input.ks.game_key = detect.input.pm.game_key
    /\ extract_market_type(detect.input.ks.title) = "spread"
    /\ extract_market_type(detect.input.pm.title) = "spread"

OutcomeIsFor(text, team) == contains(text, get_team_search_terms(team)[1])

\* the Polymarket outcome a winner candidate buys
BoughtOutcome(c) ==
    IF c.pm_side = "yes" THEN detect.input.pm.outcomes[1] ELSE detect.input.pm.outcomes[2]

\* the team the Kalshi leg of a winner candidate pays on
KalshiBacks(c) ==
    IF c.ks_side = "yes" THEN c.ks_team ELSE opponent_of(c.game, c.ks_team)

\* the Kalshi title names exactly one team of the game
NamesOneTeam(title, game_key) ==
    mentions(title, game_key.teams[1]) # mentions(title, game_key.teams[2])

\* C23: the Polymarket token of an emitted winner candidate is the one of
\* the team the Kalshi leg does not pay on, and a Kalshi market that does
\* not name exactly one team of the game yields no candidate.
C23_Claim ==
    \A i \in DOMAIN detect.arbs :
        detect.arbs[i].market_type = "winner" =>
            /\ OutcomeIsFor(BoughtOutcome(detect.arbs[i]),
                            opponent_of(detect.arbs[i].game, KalshiBacks(detect.arbs[i])))
            /\ ~OutcomeIsFor(BoughtOutcome(detect.arbs[i]), KalshiBacks(detect.arbs[i]))
            /\ NamesOneTeam(detect.arbs[i].ks, detect.arbs[i].game)

\* C24: the candidate at the loop's position has an ROI at least as high as
\* every candidate of the cycle not yet visited, so no candidate is attempted
\* before one of strictly higher ROI was attempted or skipped; candidates of
\* equal ROI keep the order in which find_arbs returned them.
C24_RoiOrder ==
    InCycle =>
        \A i, j \in DOMAIN arbs : i < j => RoiGeq(arbs[i], arbs[j])

\* an execution starts while a candidate of strictly lower ROI waits
C24_Witness ==
    /\ pc = "exec"
    /\ idx = 1
    /\ Len(arbs) >= 2
    /\ ~RoiGeq(arbs[2], cur)

FracEq(a, b) == a[1] * b[2] = b[1] * a[2]

\* 70% of the ceiling, or the profitability floor when that is higher
ScaledOrFloor(lo, hi) ==
    IF FracLess(Frac(7 * hi[1], 10 * hi[2]), lo) THEN lo ELSE Frac(7 * hi[1], 10 * hi[2])

\* C25: the size returned is 70% of the minimum of the ceilings, or the
\* profitability floor when the scaled value is below it, clamped to
\* [0.01, 1.0].
C25_Claim ==
    sizing.done =>
        /\ FracEq(sizing.result.size,
                  FracMax(Frac(1, 100),
                          FracMin(ScaledOrFloor(sizing.result.min, sizing.result.max),
                                  Frac(1, 1))))
        /\ ~FracLess(sizing.result.size, Frac(1, 100))
        /\ ~FracLess(Frac(1, 1), sizing.result.size)

\* C26: a market is filed under a key of exactly two distinct team codes;
\* a slug or ticker that resolves to fewer than two codes, or to one code
\* twice, is not filed.
C26_Claim ==
    keying.filed =>
        /\ Len(keying.key) = 2
        /\ keying.key[1] # <<>> /\ keying.key[2] # <<>>
        /\ keying.key[1] # keying.key[2]

\* execute_arb has returned to scan with one of the five outcomes
ReturnedWithOutcome ==
    /\ pc = "gate"
    /\ outcome \in {"rejected", "safe_exit", "success", "compensated", "naked"}

\* C27: every execution that starts eventually returns with one of the
\* outcomes rejected, safe exit, both filled, compensated or naked, and
\* every scan cycle that starts eventually completes.
C27_Claim ==
    /\ (pc = "exec") ~> ReturnedWithOutcome
    /\ (pc = "gate") ~> (pc = "sleep")

\* C28: a step of an execution changes the dedup set and the per-game
\* counters only when the execution returns success, and then it adds the
\* key of its candidate and adds 1 to the counter of its game alone.
C28_FrameOfExecution ==
    [][(pc \in ExecPcs) =>
        (IF pc' = "gate" /\ outcome' = "success"
         THEN /\ EXECUTED_ARBS' = EXECUTED_ARBS \cup {get_arb_key(cur)}
              /\ GAME_POSITION_COUNT' =
                   [g \in Games |-> IF g = cur.game
                                    THEN GAME_POSITION_COUNT[g] + 1
                                    ELSE GAME_POSITION_COUNT[g]]
         ELSE UNCHANGED <<EXECUTED_ARBS, GAME_POSITION_COUNT>>)]_vars

\* a success counted on one game after a failed execution (the first
\* candidate of the cycle left no mark), another game still at 0
C28_Witness ==
    /\ pc = "gate"
    /\ outcome = "success"
    /\ idx = 2
    /\ Cardinality(EXECUTED_ARBS) = 1
    /\ \E g \in Games : /\ GAME_POSITION_COUNT[g] = 1
                        /\ \E h \in Games \ {g} : GAME_POSITION_COUNT[h] = 0

\* the orders of the running execution that are one of its legs or the
\* compensating close of leg 1
LegOrders ==
    OrdersOn("pm", "buy") \cup OrdersOn("ks", "buy") \cup OrdersOn("pm", "sell")

\* C29: once both buys are submitted, the Polymarket buy, the Kalshi buy and
\* the compensating Polymarket sell all carry the same quantity, a whole
\* number of contracts of at least 1.
C29_SameWholeQuantity ==
    (OrdersOn("pm", "buy") # {} /\ OrdersOn("ks", "buy") # {}) =>
        /\ \A i, j \in LegOrders : orders[i].qty = orders[j].qty
        /\ \A i \in LegOrders : orders[i].qty \in Nat /\ orders[i].qty >= 1

\* both buys and the compensating sell were submitted
C29_Witness ==
    /\ OrdersOn("pm", "buy") # {}
    /\ OrdersOn("ks", "buy") # {}
    /\ OrdersOn("pm", "sell") # {}
    /\ outcome = "compensated"

\* C30: in a cycle execute_arb is only called for a candidate of rank 1 or
\* 2 of the sorted list; once the first two ranks are visited, whether they
\* were skipped, failed or succeeded, the candidates left are not attempted.
C30_OnlyTopTwo ==
    /\ pc \in ExecPcs => idx <= max_execute
    /\ InCycle => idx <= max_execute + 1
    /\ (pc = "gate" /\ idx > max_execute) => ~ENABLED GateExecute

\* the two best candidates were visited without a success and a third waits
C30_Witness ==
    /\ pc = "gate"
    /\ idx = max_execute + 1
    /\ arbs # <<>>
    /\ executed = 0

====
